---- MODULE Spec2Model ----
(***************************************************************************)
(* Model of xenonpy/descriptor/base.py: BaseFeature.featurize_many,        *)
(* featurize_wrapper, featurize_dataframe, transform and set_n_jobs.       *)
(* A featurizer instance `self` is shared by the threads that call it;     *)
(* every call runs in a frame of its own.                                  *)
(***************************************************************************)
EXTENDS Integers, Sequences, FiniteSets, TLC

(* ---------------------------- bounds ----------------------------------- *)
MaxLen == 2        \* longest list of entries / dataframe rows
MaxJobs == 2       \* largest worker count
NLabels == 2       \* number of features of the concrete featurizer

Callers == {1, 2}        \* threads that may call the instance
SerialCallers == {1}     \* the one thread used when calls do not overlap

(* ---------------------------- values ----------------------------------- *)
\* An atom is a number or a string; a string is known by its length.
IntAtom(n) == [kind |-> "int", v |-> n]
StrAtom(n) == [kind |-> "str", v |-> n]
\* An item of `entries`: a scalar (elems holds the one atom) or a tuple.
Scalar(a) == [tuple |-> FALSE, elems |-> <<a>>]
Tuple(s) == [tuple |-> TRUE, elems |-> s]

ScalarItems == {Scalar(IntAtom(1)), Scalar(IntAtom(2)), Scalar(StrAtom(2))}
TupleItems == {Tuple(<<IntAtom(1)>>), Tuple(<<StrAtom(2)>>)}
Items == ScalarItems \cup TupleItems

SeqsUpTo(S, n) == UNION {[1..k -> S] : k \in 0..n}

\* What a caller may pass as `entries`: a list, or an object without
\* __getitem__.
ListLike(s) == [seq |-> TRUE, items |-> s]
NotListLike == [seq |-> FALSE, items |-> <<>>]
Inputs == {ListLike(s) : s \in SeqsUpTo(Items, MaxLen)} \cup {NotListLike}

\* Elements of a feature vector.
Num(n) == [k |-> "num", v |-> n]
NaN == [k |-> "nan", v |-> 0]

\* Exceptions.
NoExc == [type |-> "", code |-> 0]
ConfigError == [type |-> "ValueError", code |-> 1]      \* line 186
NotListError == [type |-> "Exception", code |-> 2]      \* line 194
IndexError == [type |-> "IndexError", code |-> 3]       \* entries[0] of an empty list
NotIterable == [type |-> "TypeError", code |-> 4]       \* *x of a number
ArityError == [type |-> "TypeError", code |-> 5]        \* featurize() given other than one argument
NotNumeric == [type |-> "TypeError", code |-> 6]        \* featurize() of a non-number
ColumnExists == [type |-> "ValueError", code |-> 7]     \* line 149
ShapeError == [type |-> "ValueError", code |-> 8]       \* pd.DataFrame: rows and columns differ in length

(* ------------------------ the concrete featurizer ---------------------- *)
LabelNames == <<"f1", "f2", "f3", "f4">>
ExceptionsLabel == "BaseFeature Exceptions"

\* feature_labels(): a fresh list of NLabels names.
feature_labels == SubSeq(LabelNames, 1, NLabels)

Ok(v) == [ok |-> TRUE, val |-> v, exc |-> NoExc]
Raise(e) == [ok |-> FALSE, val |-> <<>>, exc |-> e]

\* featurize(*args) of a featurizer of one numeric argument n:
\* the vector (2n, 3n, ...), one value per label.
featurize(args) ==
    IF Len(args) # 1 THEN Raise(ArityError)
    ELSE IF args[1].tuple \/ args[1].elems[1].kind # "int" THEN Raise(NotNumeric)
    ELSE Ok([i \in 1..NLabels |-> Num((i + 1) * args[1].elems[1].v)])

(* ------------------------ featurize_wrapper ---------------------------- *)
\* An element of the (possibly zipped) entries: zip(entries) turns item
\* into the 1-tuple (item,).
Zipped(item) == [wrapped |-> TRUE, item |-> item]
Plain(item) == [wrapped |-> FALSE, item |-> item]

\* The positional arguments `*x` produces, or the TypeError of unpacking.
Unpack(x) ==
    IF x.wrapped THEN Ok(<<x.item>>)
    ELSE IF x.item.tuple
         THEN Ok([i \in 1..Len(x.item.elems) |-> Scalar(x.item.elems[i])])
    ELSE IF x.item.elems[1].kind = "str"
         THEN Ok([i \in 1..x.item.elems[1].v |-> Scalar(StrAtom(1))])
    ELSE Raise(NotIterable)

\* self.featurize(*x)
Invoke(x) ==
    IF Unpack(x).ok THEN featurize(Unpack(x).val) ELSE Unpack(x)

\* traceback.format_exception joined into one string.
format_exception(e) == [k |-> "trace", v |-> e.code]

\* [float("nan")], the multiplication forgotten.
NanOnce(n) == <<NaN>>

\* [float("nan")] * n
NanVector(n) == [i \in 1..n |-> NaN]

\* Lines 230-235: the try block, with the value of __return_errors it reads.
TryBlock(x, return_errors) ==
    IF ~Invoke(x).ok THEN Invoke(x)
    ELSE IF return_errors THEN Ok(Invoke(x).val \o <<NaN>>)
    ELSE Invoke(x)

\* The failure vector with the no-error sentinel in place of the trace.
ErrorVectorNoTrace(e, return_errors) ==
    IF return_errors
    THEN NanVector(Len(feature_labels)) \o <<NaN>>
    ELSE NanVector(Len(feature_labels))

\* Lines 238-243: the vector built for a failure in tolerant mode.
ErrorVector(e, return_errors) ==
    IF return_errors
    THEN NanVector(Len(feature_labels)) \o <<format_exception(e)>>
    ELSE NanVector(Len(feature_labels))

\* The except block without its `raise`.
ReraisesNever(ignore_errors) == FALSE

\* Lines 237 and 244-245: the exception goes on to the caller.
Reraises(ignore_errors) == ~ignore_errors

\* Lines 236-245: the except block.
ExceptBlock(e, ignore_errors, return_errors) ==
    IF Reraises(ignore_errors) THEN Raise(e) ELSE Ok(ErrorVector(e, return_errors))

\* A wrapper whose tolerant mode gives the sentinel vector for every entry.
featurize_wrapper_sentinel(x, ignore_errors, return_errors) ==
    IF ignore_errors THEN Ok(ErrorVector(NoExc, return_errors))
    ELSE TryBlock(x, return_errors)

\* The whole wrapper, run on a copy of self whose flags do not change.
featurize_wrapper(x, ignore_errors, return_errors) ==
    IF TryBlock(x, return_errors).ok THEN TryBlock(x, return_errors)
    ELSE ExceptBlock(TryBlock(x, return_errors).exc, ignore_errors, return_errors)

(* ------------------------------ state ---------------------------------- *)
VARIABLES
    self,           \* the featurizer instance: _n_jobs, __ignore_errors, __return_errors
    version_info,   \* sys.version_info[0]
    frame,          \* per calling thread: the running call and its outcome
    prev            \* what the caller's previous call on the same entries gave

vars == <<self, version_info, frame, prev>>

\* An attribute that is not set is <<>>, one that is set is <<value>>.
Unset == <<>>

\* multiprocessing.cpu_count()
cpu_count == MaxJobs

\* Lines 101-103: the n_jobs property.
n_jobs == IF self.n_jobs # Unset THEN self.n_jobs[1] ELSE cpu_count

ColNames == {feature_labels[i] : i \in 1..NLabels} \cup {ExceptionsLabel}
NoDf == [n \in ColNames |-> "absent"]
Columns(df) == {n \in ColNames : df[n] # "absent"}
\* The dataframes a caller may pass (the columns besides those of col_id):
\* with or without a column named as the first feature, with or without a
\* column named as the exceptions column.
Dataframes ==
    {df \in [ColNames -> {"absent", "orig"}] :
        \A n \in ColNames \ {feature_labels[1], ExceptionsLabel} : df[n] = "absent"}

IdleFrame ==
    [pc |-> "idle", op |-> "", listlike |-> TRUE, input |-> <<>>,
     entries |-> <<>>, ignore_errors |-> FALSE, return_errors |-> FALSE,
     i |-> 0, out |-> <<>>, exc_info |-> NoExc,
     pool |-> FALSE, workers |-> 0, tasks |-> <<>>, finished |-> <<>>,
     got |-> <<>>, reads |-> {},
     df |-> NoDf, df0 |-> NoDf, inplace |-> FALSE, added |-> <<>>,
     outcome |-> "none", ret |-> <<>>, exc |-> NoExc]

NoPrev == [valid |-> FALSE, ignore_errors |-> FALSE, return_errors |-> FALSE,
           outcome |-> "none", ret |-> <<>>]

Untouched == [st |-> "untouched", args |-> <<>>]

\* A fresh frame for a call of `op` on `input`.
NewFrame(op, input, ignore_errors, return_errors) ==
    [IdleFrame EXCEPT !.op = op, !.listlike = input.seq, !.input = input.items,
                      !.entries = [i \in 1..Len(input.items) |-> Plain(input.items[i])],
                      !.got = [i \in 1..Len(input.items) |-> Untouched],
                      !.ignore_errors = ignore_errors,
                      !.return_errors = return_errors]

Init ==
    /\ self = [n_jobs |-> Unset, ignore_errors |-> Unset, return_errors |-> Unset]
    /\ version_info \in {2, 3}
    /\ frame = [c \in Callers |-> IdleFrame]
    /\ prev = NoPrev

\* The call raises e to its caller.
Raised(f, e) ==
    [f EXCEPT !.pc = "done", !.outcome = "raised", !.exc = e, !.tasks = <<>>]

\* featurize_many returns r: to the caller, or to featurize_dataframe.
Returned(f, r) ==
    IF f.op = "featurize_dataframe"
    THEN [f EXCEPT !.pc = "merge", !.ret = r, !.tasks = <<>>]
    ELSE [f EXCEPT !.pc = "done", !.outcome = "returned", !.ret = r, !.tasks = <<>>]

\* Line 185 with the two flags exchanged.
BadFlagsSwapped(ignore_errors, return_errors) == ignore_errors /\ ~return_errors

\* Line 185.
BadFlags(ignore_errors, return_errors) == return_errors /\ ~ignore_errors

\* Lines 185-187: entering featurize_many.
CheckFlags(f) ==
    IF BadFlags(f.ignore_errors, f.return_errors) THEN Raised(f, ConfigError)
    ELSE [f EXCEPT !.pc = "w_ie"]

Ready(c) == frame[c].pc \in {"idle", "done"}

\* The caller's previous call, kept when the next one is on the same entries.
Remember(c, input) ==
    IF /\ frame[c].pc = "done"
       /\ frame[c].op = "featurize_many"
       /\ frame[c].listlike = input.seq
       /\ frame[c].input = input.items
    THEN [valid |-> TRUE, ignore_errors |-> frame[c].ignore_errors,
          return_errors |-> frame[c].return_errors,
          outcome |-> frame[c].outcome, ret |-> frame[c].ret]
    ELSE NoPrev

(* ------------------------------ calls ---------------------------------- *)
\* Lines 169-187: a thread calls featurize_many.
featurize_many(c, input, ignore_errors, return_errors) ==
    /\ Ready(c)
    /\ frame' = [frame EXCEPT ![c] =
            CheckFlags(NewFrame("featurize_many", input, ignore_errors, return_errors))]
    /\ prev' = Remember(c, input)
    /\ UNCHANGED <<self, version_info>>

\* Lines 114-117: transform(X) is featurize_many(X, ignore_errors=True).
transform(c, X) ==
    /\ Ready(c)
    /\ frame' = [frame EXCEPT ![c] = CheckFlags(NewFrame("transform", X, TRUE, FALSE))]
    /\ prev' = NoPrev
    /\ UNCHANGED <<self, version_info>>

\* Lines 146-149: a column of df that is among the feature labels.
Clashes(df, labels) == {col \in Columns(df) : \E i \in 1..Len(labels) : labels[i] = col}

\* Lines 119-154: featurize_dataframe up to its call of featurize_many on
\* df[col_id].values, whose rows are arrays.
featurize_dataframe(c, df, rows, ignore_errors, return_errors, inplace) ==
    /\ Ready(c)
    /\ LET f == [NewFrame("featurize_dataframe", ListLike(rows),
                          ignore_errors, return_errors)
                 EXCEPT !.df = df, !.df0 = df, !.inplace = inplace]
       IN frame' = [frame EXCEPT ![c] =
               IF Clashes(df, feature_labels) # {} THEN Raised(f, ColumnExists)
               ELSE CheckFlags(f)]
    /\ prev' = NoPrev
    /\ UNCHANGED <<self, version_info>>

\* Lines 97-99.
set_n_jobs(c, n) ==
    /\ Ready(c)
    /\ self' = [self EXCEPT !.n_jobs = <<n>>]
    /\ UNCHANGED <<version_info, frame, prev>>

(* -------------------------- featurize_many ----------------------------- *)
\* Line 189.
StoreIgnoreErrors(c) ==
    /\ frame[c].pc = "w_ie"
    /\ self' = [self EXCEPT !.ignore_errors = <<frame[c].ignore_errors>>]
    /\ frame' = [frame EXCEPT ![c].pc = "w_re"]
    /\ UNCHANGED <<version_info, prev>>

\* `len(entries) is 0` where the two zeros are different objects.
IsEmptyNever(entries) == FALSE

\* Line 197.
IsEmpty(entries) == Len(entries) = 0

\* A tuple, list or array (line 201); what zip yields is a tuple.
IsTupleLike(x) == x.wrapped \/ x.item.tuple

\* Line 201 looking at the last entry.
NeedsZipLast(entries) == ~IsTupleLike(entries[Len(entries)])

\* Line 201: only the first entry is looked at.
NeedsZip(entries) == ~IsTupleLike(entries[1])

\* Line 202.
zip(entries) == [i \in 1..Len(entries) |-> Zipped(entries[i].item)]

\* Lines 192-202, which touch only the call's own variables.
CheckInputs(f) ==
    IF ~f.listlike THEN Raised(f, NotListError)
    ELSE IF IsEmpty(f.entries) THEN Returned(f, <<>>)
    ELSE IF Len(f.entries) = 0 THEN Raised(f, IndexError)
    ELSE [f EXCEPT !.pc = "dispatch",
                   !.entries = IF NeedsZip(f.entries) THEN zip(f.entries) ELSE f.entries]

\* Lines 190-202.
StoreReturnErrors(c) ==
    /\ frame[c].pc = "w_re"
    /\ self' = [self EXCEPT !.return_errors = <<frame[c].return_errors>>]
    /\ frame' = [frame EXCEPT ![c] = CheckInputs(frame[c])]
    /\ UNCHANGED <<version_info, prev>>

Queued == [st |-> "queued", ignore_errors |-> FALSE, return_errors |-> FALSE, val |-> <<>>]

\* Lines 204-217: sequential, the Python 2 fallback (set_n_jobs(1) and
\* featurize_many again on the same arguments), or a pool of n_jobs workers.
Dispatch(c) ==
    /\ frame[c].pc = "dispatch"
    /\ IF n_jobs = 1
       THEN /\ frame' = [frame EXCEPT ![c].pc = "try", ![c].i = 1, ![c].out = <<>>]
            /\ UNCHANGED self
       ELSE IF version_info < 3
       THEN /\ self' = [self EXCEPT !.n_jobs = <<1>>]
            /\ frame' = [frame EXCEPT ![c] = CheckFlags(frame[c])]
       ELSE /\ frame' = [frame EXCEPT ![c].pc = "pool", ![c].pool = TRUE,
                                       ![c].workers = n_jobs,
                                       ![c].tasks = [i \in 1..Len(frame[c].entries) |-> Queued]]
            /\ UNCHANGED self
    /\ UNCHANGED <<version_info, prev>>

(* ----------------------- the sequential loop --------------------------- *)
\* What featurize was given for an entry.
GotOf(x) ==
    IF Unpack(x).ok THEN [st |-> "called", args |-> Unpack(x).val]
    ELSE [st |-> "unpack_failed", args |-> <<>>]

Read(flag, val) == [flag |-> flag, val |-> val]

\* Line 206: the list comprehension collects the wrapper's values in order.
ListAppend(out, v) == Append(out, v)

\* The wrapper returned v for entry i: on to the next entry, or return.
Collect(f, v) ==
    LET g == [f EXCEPT !.out = ListAppend(f.out, v), !.exc_info = NoExc]
    IN IF f.i = Len(f.entries) THEN Returned(g, g.out)
       ELSE [g EXCEPT !.i = f.i + 1, !.pc = "try"]

\* Lines 230-235 for entry i, reading self.__return_errors.
SeqTry(c) ==
    /\ frame[c].pc = "try"
    /\ LET f == frame[c]
           x == f.entries[f.i]
           re == self.return_errors[1]
           g == [f EXCEPT !.got[f.i] = GotOf(x),
                          !.reads = @ \cup {Read("return_errors", re)}]
       IN frame' = [frame EXCEPT ![c] =
               IF TryBlock(x, re).ok THEN Collect(g, TryBlock(x, re).val)
               ELSE [g EXCEPT !.pc = "except", !.exc_info = TryBlock(x, re).exc]]
    /\ UNCHANGED <<self, version_info, prev>>

\* Lines 236-237 and 244-245, reading self.__ignore_errors.
SeqExcept(c) ==
    /\ frame[c].pc = "except"
    /\ LET f == frame[c]
           ie == self.ignore_errors[1]
           g == [f EXCEPT !.reads = @ \cup {Read("ignore_errors", ie)}]
       IN frame' = [frame EXCEPT ![c] =
               IF Reraises(ie) THEN Raised(g, f.exc_info)
               ELSE [g EXCEPT !.pc = "except_re"]]
    /\ UNCHANGED <<self, version_info, prev>>

\* Lines 238-243, reading self.__return_errors again.
SeqExceptVector(c) ==
    /\ frame[c].pc = "except_re"
    /\ LET f == frame[c]
           re == self.return_errors[1]
           g == [f EXCEPT !.reads = @ \cup {Read("return_errors", re)}]
       IN frame' = [frame EXCEPT ![c] = Collect(g, ErrorVector(f.exc_info, re))]
    /\ UNCHANGED <<self, version_info, prev>>

(* ----------------------------- the pool -------------------------------- *)
Running(f) == {i \in 1..Len(f.tasks) : f.tasks[i].st = "running"}

\* Line 218: a task (the bound method, so a pickled copy of self, and one
\* entry) goes to a free worker.
PoolStart(c, i) ==
    /\ frame[c].pc = "pool"
    /\ i \in 1..Len(frame[c].tasks)
    /\ frame[c].tasks[i].st = "queued"
    /\ Cardinality(Running(frame[c])) < frame[c].workers
    /\ frame' = [frame EXCEPT ![c].tasks[i] =
            [st |-> "running", ignore_errors |-> self.ignore_errors[1],
             return_errors |-> self.return_errors[1], val |-> <<>>]]
    /\ UNCHANGED <<self, version_info, prev>>

\* The worker runs featurize_wrapper on its copy; map raises the first
\* exception that comes back and the pool is terminated.
PoolFinish(c, i) ==
    /\ frame[c].pc = "pool"
    /\ i \in Running(frame[c])
    /\ LET f == frame[c]
           t == f.tasks[i]
           w == featurize_wrapper(f.entries[i], t.ignore_errors, t.return_errors)
           g == [f EXCEPT !.got[i] = GotOf(f.entries[i]),
                          !.reads = @ \cup {Read("return_errors", t.return_errors)}
                                      \cup (IF TryBlock(f.entries[i], t.return_errors).ok THEN {}
                                            ELSE {Read("ignore_errors", t.ignore_errors)})]
       IN frame' = [frame EXCEPT ![c] =
               IF w.ok THEN [g EXCEPT !.tasks[i] = [t EXCEPT !.st = "done", !.val = w.val],
                                      !.finished = Append(@, i)]
               ELSE Raised(g, w.exc)]
    /\ UNCHANGED <<self, version_info, prev>>

\* As imap_unordered would: the values in the order the workers finished.
MapResultUnordered(f) == [i \in 1..Len(f.tasks) |-> f.tasks[f.finished[i]].val]

\* Line 218: map returns the values by position.
MapResult(f) == [i \in 1..Len(f.tasks) |-> f.tasks[i].val]

PoolJoin(c) ==
    /\ frame[c].pc = "pool"
    /\ \A i \in 1..Len(frame[c].tasks) : frame[c].tasks[i].st = "done"
    /\ frame' = [frame EXCEPT ![c] = Returned(frame[c], MapResult(frame[c]))]
    /\ UNCHANGED <<self, version_info, prev>>

(* ----------------------- featurize_dataframe --------------------------- *)
\* Lines 155-156: the columns the call writes.
WrittenLabels(return_errors) ==
    IF return_errors THEN Append(feature_labels, ExceptionsLabel) ELSE feature_labels

InSeq(s, e) == \E i \in 1..Len(s) : s[i] = e

\* Lines 155-167: the features become columns of df, or of a copy.
DataframeMerge(c) ==
    /\ frame[c].pc = "merge"
    /\ LET f == frame[c]
           labels == WrittenLabels(f.return_errors)
       IN frame' = [frame EXCEPT ![c] =
               IF \E r \in 1..Len(f.ret) : Len(f.ret[r]) # Len(labels)
               THEN Raised(f, ShapeError)
               ELSE IF f.inplace
               THEN [f EXCEPT !.pc = "done", !.outcome = "returned",
                              !.df = [n \in ColNames |->
                                         IF InSeq(labels, n) THEN "feat" ELSE f.df[n]]]
               ELSE [f EXCEPT !.pc = "done", !.outcome = "returned", !.added = labels]]
    /\ UNCHANGED <<self, version_info, prev>>

(* --------------------------- specifications ---------------------------- *)
Step(c) ==
    \/ StoreIgnoreErrors(c)
    \/ StoreReturnErrors(c)
    \/ Dispatch(c)
    \/ SeqTry(c)
    \/ SeqExcept(c)
    \/ SeqExceptVector(c)
    \/ \E i \in 1..MaxLen + 1 : PoolStart(c, i)
    \/ \E i \in 1..MaxLen + 1 : PoolFinish(c, i)
    \/ PoolJoin(c)

\* The entries of the call that has just ended.
LastInput(c) == [seq |-> frame[c].listlike, items |-> frame[c].input]

\* The caller is done with the outcome of its call.
Forget(c) ==
    /\ frame[c].pc = "done"
    /\ frame' = [frame EXCEPT ![c] = IdleFrame]
    /\ prev' = NoPrev
    /\ UNCHANGED <<self, version_info>>

Idle(c) == frame[c].pc = "idle"

\* The caller's choices of arguments.
CallMany(c) ==
    \E input \in Inputs, ie \in BOOLEAN, re \in BOOLEAN :
        Idle(c) /\ featurize_many(c, input, ie, re)

\* The caller repeats a call without error capture on the same entries with
\* the other value of ignore_errors.
CallManyAgain(c) ==
    /\ frame[c].pc = "done"
    /\ frame[c].op = "featurize_many"
    /\ ~frame[c].return_errors
    /\ featurize_many(c, LastInput(c), ~frame[c].ignore_errors, FALSE)

CallTransform(c) ==
    \E input \in Inputs : Idle(c) /\ transform(c, input)

CallDataframe(c) ==
    \E df \in Dataframes, rows \in SeqsUpTo(TupleItems, MaxLen),
       ie \in BOOLEAN, re \in BOOLEAN, inplace \in BOOLEAN :
        Idle(c) /\ featurize_dataframe(c, df, rows, ie, re, inplace)

SetNJobs(c) ==
    \E n \in 1..MaxJobs : Idle(c) /\ set_n_jobs(c, n)

\* One thread uses the instance: calls follow one another.
Next ==
    \E c \in SerialCallers :
        \/ CallMany(c)
        \/ CallManyAgain(c)
        \/ CallTransform(c)
        \/ CallDataframe(c)
        \/ SetNJobs(c)
        \/ Step(c)
        \/ DataframeMerge(c)
        \/ Forget(c)

Spec == Init /\ [][Next]_vars

\* Two threads use the same instance: their featurize_many calls overlap.
OverlapInputs == {ListLike(s) : s \in SeqsUpTo({Scalar(IntAtom(1)), Scalar(StrAtom(2))}, 1)}

CallManyOverlap(c) ==
    \E input \in OverlapInputs, ie \in BOOLEAN, re \in BOOLEAN :
        Idle(c) /\ featurize_many(c, input, ie, re)

NextOverlap ==
    \E c \in Callers :
        \/ CallManyOverlap(c)
        \/ SetNJobs(c)
        \/ Step(c)
        \/ Forget(c)

SpecOverlap == Init /\ [][NextOverlap]_vars

(* ------------------------------ claims --------------------------------- *)
Done(c) == frame[c].pc = "done"
Indices(f) == 1..Len(f.entries)
\* featurize fails on entry i as it was handed to the wrapper.
Fails(f, i) == ~Invoke(f.entries[i]).ok
IsMany(f) == f.op \in {"featurize_many", "transform"}
Extra(return_errors) == IF return_errors THEN 1 ELSE 0

\* C1: a featurize_many call with ignore_errors=False (and return_errors=False)
\* on a list with at least one entry on which featurize raises ends by raising
\* the exception of such an entry and returns nothing, whether it ran
\* sequentially or on the pool.
C1_FailFast ==
    \A c \in Callers :
        LET f == frame[c] IN
        (Done(c) /\ IsMany(f) /\ f.listlike /\ ~f.ignore_errors /\ ~f.return_errors
            /\ \E i \in Indices(f) : Fails(f, i))
        => /\ f.outcome = "raised"
           /\ f.ret = <<>>
           /\ \E i \in Indices(f) : Fails(f, i) /\ f.exc = Invoke(f.entries[i]).exc

\* A fail-fast call raised at its second entry, after the first had succeeded.
C1_Witness ==
    \E c \in Callers :
        LET f == frame[c] IN
        /\ Done(c) /\ f.op = "featurize_many" /\ ~f.ignore_errors
        /\ Len(f.entries) = 2 /\ ~Fails(f, 1) /\ Fails(f, 2)
        /\ f.outcome = "raised" /\ f.exc = NotNumeric /\ Len(f.out) = 1

\* C2: a call with ignore_errors=True on a list always returns; at every
\* position where featurize raises the result is len(feature_labels()) NaNs
\* (then the formatted trace when return_errors), and where it succeeds the
\* result is featurize's vector (then a NaN when return_errors).
C2_Isolation ==
    \A c \in Callers :
        LET f == frame[c] IN
        (Done(c) /\ IsMany(f) /\ f.listlike /\ f.ignore_errors)
        => /\ f.outcome = "returned"
           /\ Len(f.ret) = Len(f.entries)
           /\ \A i \in Indices(f) :
                 LET r == Invoke(f.entries[i]) IN
                 /\ SubSeq(f.ret[i], 1, Len(f.ret[i]) - Extra(f.return_errors))
                        = IF r.ok THEN r.val ELSE [k \in 1..Len(feature_labels) |-> NaN]
                 /\ f.return_errors =>
                        f.ret[i][Len(f.ret[i])]
                            = IF r.ok THEN NaN ELSE [k |-> "trace", v |-> r.exc.code]

\* A tolerant call with return_errors returned a vector for a failed entry
\* next to one for a successful entry.
C2_Witness ==
    \E c \in Callers :
        LET f == frame[c] IN
        /\ Done(c) /\ f.op = "featurize_many" /\ f.ignore_errors /\ f.return_errors
        /\ f.outcome = "returned" /\ Len(f.ret) = 2
        /\ Fails(f, 1) /\ ~Fails(f, 2)

\* featurize_many was entered (featurize_dataframe enters it unless a label
\* is already a column).
EnteredMany(f) ==
    \/ IsMany(f)
    \/ f.op = "featurize_dataframe" /\ Clashes(f.df0, feature_labels) = {}

\* C3: a call with return_errors=True and ignore_errors=False raises the
\* configuration ValueError, no wrapper has run on any entry, no flag of the
\* instance was read and no pool was made, whatever the input and n_jobs.
C3_ConfigFirst ==
    \A c \in Callers :
        LET f == frame[c] IN
        (f.pc # "idle" /\ EnteredMany(f) /\ f.return_errors /\ ~f.ignore_errors)
        => /\ Done(c)
           /\ f.outcome = "raised" /\ f.exc = ConfigError
           /\ \A i \in 1..Len(f.got) : f.got[i] = Untouched
           /\ f.reads = {} /\ ~f.pool

\* Such a call was made on a list of entries with a worker count other than 1.
C3_Witness ==
    \E c \in Callers :
        LET f == frame[c] IN
        /\ Done(c) /\ f.op = "featurize_many" /\ f.return_errors /\ ~f.ignore_errors
        /\ f.listlike /\ Len(f.input) = MaxLen /\ n_jobs # 1
        /\ f.exc = ConfigError

\* C4: when featurize_many returns, the result has one element per input
\* item and element i is the wrapper's value for item i, in the sequential
\* loop and on the pool in whatever order the workers finished.
C4_LengthOrder ==
    \A c \in Callers :
        LET f == frame[c] IN
        (Done(c) /\ IsMany(f) /\ f.outcome = "returned")
        => /\ Len(f.ret) = Len(f.input)
           /\ \A i \in 1..Len(f.input) :
                 /\ f.entries[i].item = f.input[i]
                 /\ f.ret[i] = featurize_wrapper(f.entries[i], f.ignore_errors,
                                                 f.return_errors).val

\* A pool call returned after the worker of the second entry finished first,
\* the two entries having different vectors.
C4_Witness ==
    \E c \in Callers :
        LET f == frame[c] IN
        /\ Done(c) /\ f.op = "featurize_many" /\ f.outcome = "returned"
        /\ f.pool /\ f.finished = <<2, 1>> /\ f.ret[1] # f.ret[2]

\* C5: every vector of a returned result has len(feature_labels()) values,
\* and one more when return_errors, for failed and successful entries alike.
C5_UniformLength ==
    \A c \in Callers :
        LET f == frame[c] IN
        (Done(c) /\ f.outcome = "returned")
        => \A i \in 1..Len(f.ret) :
               Len(f.ret[i]) = Len(feature_labels) + Extra(f.return_errors)

\* A result without error capture holds a failed and a successful entry.
C5_Witness ==
    \E c \in Callers :
        LET f == frame[c] IN
        /\ Done(c) /\ f.outcome = "returned" /\ ~f.return_errors
        /\ Len(f.ret) = 2 /\ ~Fails(f, 1) /\ Fails(f, 2)

\* C6: when featurize succeeds on every entry, the call with
\* ignore_errors=True and the call with ignore_errors=False on the same
\* entries (return_errors=False in both) return the same result.
C6_Transparent ==
    \A c \in SerialCallers :
        LET f == frame[c] IN
        (Done(c) /\ prev.valid /\ f.op = "featurize_many" /\ f.listlike
            /\ ~f.return_errors /\ ~prev.return_errors
            /\ f.ignore_errors # prev.ignore_errors
            /\ \A i \in Indices(f) : ~Fails(f, i))
        => /\ f.outcome = "returned" /\ prev.outcome = "returned"
           /\ f.ret = prev.ret

\* A tolerant pool call on two good entries followed a fail-fast call on them.
C6_Witness ==
    \E c \in SerialCallers :
        LET f == frame[c] IN
        /\ Done(c) /\ prev.valid /\ f.op = "featurize_many"
        /\ f.ignore_errors /\ ~prev.ignore_errors
        /\ ~f.return_errors /\ ~prev.return_errors
        /\ Len(f.entries) = 2 /\ ~Fails(f, 1) /\ ~Fails(f, 2)
        /\ f.pool /\ f.outcome = "returned"

Wrapped(item) == [st |-> "called", args |-> <<item>>]

\* C7 as stated: whatever the other items are, each scalar item the wrapper
\* has run on reached featurize as its single argument.
C7_EveryScalarWrapped ==
    \A c \in Callers :
        LET f == frame[c] IN
        \A i \in 1..Len(f.got) :
            (~f.input[i].tuple /\ f.got[i] # Untouched) => f.got[i] = Wrapped(f.input[i])

\* C7 amended: when the first item is a scalar every item the wrapper has run
\* on reached featurize as its single argument; when the first item is a
\* tuple, list or array every item was star-unpacked as it stood.
C7_FirstItemDecides ==
    \A c \in Callers :
        LET f == frame[c] IN
        \A i \in 1..Len(f.got) :
            f.got[i] # Untouched =>
                IF f.input[1].tuple
                THEN /\ f.input[i].tuple =>
                          /\ f.got[i].st = "called"
                          /\ f.got[i].args = [k \in 1..Len(f.input[i].elems) |->
                                                  Scalar(f.input[i].elems[k])]
                     /\ (~f.input[i].tuple /\ f.input[i].elems[1].kind = "int") =>
                          f.got[i].st = "unpack_failed"
                     /\ (~f.input[i].tuple /\ f.input[i].elems[1].kind = "str") =>
                          /\ f.got[i].st = "called"
                          /\ Len(f.got[i].args) = f.input[i].elems[1].v
                ELSE f.got[i] = Wrapped(f.input[i])

\* A list of a scalar and then a tuple: the tuple was wrapped too.
C7_Witness ==
    \E c \in Callers :
        LET f == frame[c] IN
        /\ Done(c) /\ Len(f.input) = 2
        /\ ~f.input[1].tuple /\ f.input[2].tuple
        /\ f.got[1] = Wrapped(f.input[1]) /\ f.got[2] = Wrapped(f.input[2])

\* C8: with valid flags a call on an empty list returns an empty result, no
\* wrapper has run, no flag was read and no pool was made.
C8_Empty ==
    \A c \in Callers :
        LET f == frame[c] IN
        (Done(c) /\ EnteredMany(f) /\ f.listlike /\ Len(f.input) = 0
            /\ ~(f.return_errors /\ ~f.ignore_errors))
        => /\ f.outcome = "returned" /\ f.ret = <<>>
           /\ f.reads = {} /\ ~f.pool /\ f.workers = 0

\* An empty list was featurized under Python 3 with more than one worker.
C8_Witness ==
    \E c \in Callers :
        LET f == frame[c] IN
        /\ Done(c) /\ f.op = "featurize_many" /\ f.listlike /\ Len(f.input) = 0
        /\ f.outcome = "returned" /\ n_jobs > 1 /\ version_info = 3

\* C9: every value of __ignore_errors or __return_errors that a wrapper run
\* for a call has read is the value that call was given.
C9_FlagsBelongToCall ==
    \A c \in Callers :
        \A r \in frame[c].reads :
            r.val = IF r.flag = "ignore_errors" THEN frame[c].ignore_errors
                    ELSE frame[c].return_errors

\* The names of the columns featurize_dataframe writes that df already has.
WouldOverwrite(f) ==
    {n \in Columns(f.df0) : InSeq(WrittenLabels(f.return_errors), n)}

\* C10: a featurize_dataframe call on a df that already has one of the columns
\* it writes (a feature label, or the exceptions column when return_errors)
\* raises ValueError before any entry is featurized and leaves df as it was.
C10_NeverOverwrites ==
    \A c \in Callers :
        LET f == frame[c] IN
        (Done(c) /\ f.op = "featurize_dataframe" /\ WouldOverwrite(f) # {})
        => /\ f.outcome = "raised" /\ f.exc.type = "ValueError"
           /\ \A i \in 1..Len(f.got) : f.got[i] = Untouched
           /\ f.df = f.df0

====
